---- MODULE Spec2Model ----
(***************************************************************************)
(* Model of src/subscriber/controller.py: an MQTT subscriber that forwards *)
(* every received message to service.exec_switchbot, counts the messages   *)
(* it processed and disconnects once args.count of them were received.     *)
(*                                                                         *)
(* Two threads run the program.  The main thread runs the __main__ block   *)
(* (connect, subscribe, received_all_event.wait(), disconnect).  The       *)
(* connection's event-loop thread ("delivery thread") runs the callbacks   *)
(* on_connection_interrupted, on_connection_resumed,                       *)
(* on_resubscribe_complete and on_message_received, one at a time.         *)
(*                                                                         *)
(* An exception that leaves a callback unwinds the callback only: Python   *)
(* ends the process on SystemExit or on an uncaught exception only when it *)
(* leaves the main thread.  sys.exit (line 76) and a failure of            *)
(* service.exec_switchbot (line 83) happen on the delivery thread, so the  *)
(* model records them (sysExitArg, procLog) and the process keeps running; *)
(* exited / exitCode are written by the main flow alone.                   *)
(***************************************************************************)
EXTENDS Integers, Sequences, FiniteSets

\* ---------------------------------------------------------------- bounds
MaxMsgs == 2      \* messages the broker publishes on the topic in one run
MaxCount == 2     \* largest --count the runs are started with
MaxResub == 2     \* resubscribe-all requests issued in one run
MaxTopics == 2    \* topics restored by one resubscribe-all request

\* ------------------------------------------------------------- constants
ACCEPTED == "ACCEPTED"                 \* mqtt.ConnectReturnCode.ACCEPTED
ReturnCodes == {ACCEPTED, "SERVER_UNAVAILABLE"}
None == "None"                         \* a grant the server refused
AT_MOST_ONCE == "AT_MOST_ONCE"         \* mqtt.QoS.AT_MOST_ONCE, the IntEnum 0
AT_LEAST_ONCE == "AT_LEAST_ONCE"       \* mqtt.QoS.AT_LEAST_ONCE, the IntEnum 1
Grants == {None, AT_MOST_ONCE, AT_LEAST_ONCE}

\* --count is parsed with type=int: any integer, 0 meaning "run forever".
Counts == -1 .. MaxCount

\* resubscribe_future.result()['topics']: the (topic, qos) pairs of the topics
\* the connection held, in result order.  Topic i is the i-th of them, so a
\* result is the sequence of its grants.
ResubResults ==
    UNION { [1 .. n -> Grants] : n \in 0 .. MaxTopics }

\* Line 63: the future resubscribe_existing_topics() hands back.  It is still
\* pending, or already completed, with a result or with an exception (the
\* connection completes it at once when it holds no topic to resubscribe and
\* when the request could not be made).
ResubFutures ==
    { [state |-> "pending", topics |-> << >>],
      [state |-> "exception", topics |-> << >>] }
        \cup { [state |-> "result", topics |-> t] : t \in ResubResults }

VARIABLES
    count,               \* args.count
    received_count,      \* global received_count
    received_all_event,  \* threading.Event: TRUE when set
    setCalls,            \* number of received_all_event.set() calls so far
    mainPc,              \* position of the main flow
    exited,              \* the process has ended
    exitCode,            \* its exit status, meaningful when exited
    connectResult,       \* what connect_future.result() gave the main flow
    conn,                \* the connection as the callbacks observe it
    subscribeIssued,     \* mqtt_connection.subscribe was called
    subAck,              \* the broker's answer to SUBSCRIBE
    disconnectIssued,    \* mqtt_connection.disconnect was called
    nextMsg,             \* id of the next message the broker publishes
    msgq,                \* messages surfaced by the transport, not yet dispatched
    dpc,                 \* position of the delivery thread
    cur,                 \* messages on_message_received is working on (<= 1)
    procLog,             \* calls, returns and failures of service.exec_switchbot
    resubRequests,       \* resubscribe_existing_topics calls so far
    pending,             \* resubscribe futures waiting for their completion
    sysExitArg,          \* topic of the latest sys.exit call (line 76)
    absentGrants,        \* topics with qos None in the result line 71 read last
    lastEvent            \* the callback the delivery thread ran last

vars == << count, received_count, received_all_event, setCalls, mainPc, exited,
           exitCode, connectResult, conn, subscribeIssued, subAck,
           disconnectIssued, nextMsg, msgq, dpc, cur, procLog, resubRequests,
           pending, sysExitArg, absentGrants, lastEvent >>

mainVars == << mainPc, exited, exitCode, connectResult, subscribeIssued,
              disconnectIssued >>
gateVars == << received_count, received_all_event, setCalls >>
msgVars == << nextMsg, msgq, cur, procLog >>
resubVars == << resubRequests, pending, sysExitArg, absentGrants >>

Event(kind, rc, sp) == [kind |-> kind, rc |-> rc, sp |-> sp]

\* ------------------------------------------------------------------ Init
\* Lines 37-42: arguments parsed, counter 0, event unset; line 90: main starts.
Init ==
    /\ count \in Counts
    /\ received_count = 0
    /\ received_all_event = FALSE
    /\ setCalls = 0
    /\ mainPc = "connect"
    /\ exited = FALSE
    /\ exitCode = 0
    /\ connectResult = "none"
    /\ conn = "Disconnected"
    /\ subscribeIssued = FALSE
    /\ subAck = "none"
    /\ disconnectIssued = FALSE
    /\ nextMsg = 1
    /\ msgq = << >>
    /\ dpc = "idle"
    /\ cur = << >>
    /\ procLog = << >>
    /\ resubRequests = 0
    /\ pending = 0
    /\ sysExitArg = << >>
    /\ absentGrants = {}
    /\ lastEvent = Event("none", ACCEPTED, FALSE)

\* ------------------------------------------------- decisions of the code
\* Line 61 without the return-code test.
ShouldResubscribe_ignoresReturnCode(return_code, session_present) ==
    ~session_present

\* Line 61 without "and not session_present".
ShouldResubscribe_ignoresSession(return_code, session_present) ==
    return_code = ACCEPTED

\* Line 61: resubscribe only when the resume was accepted without a session.
ShouldResubscribe(return_code, session_present) ==
    return_code = ACCEPTED /\ ~session_present

\* Line 75 written "if not qos": QoS 0 (AT_MOST_ONCE) is taken for a refusal.
IsRejected_falsy(qos) == qos \in {None, AT_MOST_ONCE}

\* Line 75: a grant is a rejection when it is None (QoS 0 is a valid grant).
IsRejected(qos) == qos = None

\* Lines 74-76 with the exit moved behind the loop: the walk goes on after a
\* rejected topic and the last one found is passed to sys.exit.
FirstRejected_last(topics, i) ==
    LET rejected == { j \in i .. Len(topics) : IsRejected(topics[j]) }
    IN  IF rejected = {} THEN << >>
        ELSE << CHOOSE j \in rejected : \A k \in rejected : k <= j >>

\* Lines 74-76: walk the (topic, qos) pairs in result order from position i;
\* the first rejected one is passed to sys.exit, which ends the walk.
RECURSIVE FirstRejected(_, _)
FirstRejected(topics, i) ==
    IF i > Len(topics) THEN << >>
    ELSE IF IsRejected(topics[i]) THEN << i >>
    ELSE FirstRejected(topics, i + 1)

\* Line 87 written with >= : every delivery from the target on sets the event.
TargetReached_atLeast(n) == n >= count

\* Line 87 evaluated before line 86: the counter is compared, then incremented.
TargetReached_beforeIncrement(n) == n - 1 = count

\* Line 87 written with > : the event is set one delivery late.
TargetReached_late(n) == n = count + 1

\* Line 87: the event is set when the counter equals args.count.
TargetReached(n) == n = count

\* ------------------------------------- the connection, as the spec has it
\* Spec 4.2, state machine of the connection observed by the callbacks.
ConnAfterInterrupted == "Interrupted"

ConnAfterResumed(return_code, session_present) ==
    IF return_code # ACCEPTED THEN conn
    ELSE IF session_present THEN "Connected"
    ELSE "Resuming"

ConnAfterResubscribe(c, restored) ==
    IF c = "Resuming" /\ restored THEN "Connected" ELSE c

\* --------------------------------------------------------- the main flow
\* Line 111: mqtt_connection.connect().
main_connect ==
    /\ ~exited /\ mainPc = "connect"
    /\ mainPc' = "connect_result"
    /\ conn' = "Connecting"
    /\ UNCHANGED << count, gateVars, exited, exitCode, connectResult,
                    subscribeIssued, subAck, disconnectIssued, msgVars, dpc,
                    resubVars, lastEvent >>

\* Line 114 left out: the main flow goes on to subscribe without reading the
\* connect result.
main_connect_result_unchecked(accepted) ==
    /\ ~exited /\ mainPc = "connect_result"
    /\ mainPc' = "subscribe"
    /\ connectResult' = IF accepted THEN "accepted" ELSE "rejected"
    /\ conn' = IF accepted THEN "Connected" ELSE "Disconnected"
    /\ UNCHANGED << count, gateVars, exited, exitCode, subscribeIssued, subAck,
                    disconnectIssued, msgVars, dpc, resubVars, lastEvent >>

\* Lines 114-115: connect_future.result() returns, or raises on rejection;
\* an exception leaving the main thread ends the process with status 1.
main_connect_result(accepted) ==
    /\ ~exited /\ mainPc = "connect_result"
    /\ IF accepted
       THEN /\ mainPc' = "subscribe"
            /\ connectResult' = "accepted"
            /\ conn' = "Connected"
            /\ UNCHANGED << exited, exitCode >>
       ELSE /\ mainPc' = "failed"
            /\ connectResult' = "rejected"
            /\ conn' = "Disconnected"
            /\ exited' = TRUE
            /\ exitCode' = 1
    /\ UNCHANGED << count, gateVars, subscribeIssued, subAck, disconnectIssued,
                    msgVars, dpc, resubVars, lastEvent >>

\* Lines 118-122: mqtt_connection.subscribe(topic, qos, on_message_received).
main_subscribe ==
    /\ ~exited /\ mainPc = "subscribe"
    /\ mainPc' = "subscribe_result"
    /\ subscribeIssued' = TRUE
    /\ subAck' = "pending"
    /\ UNCHANGED << count, gateVars, exited, exitCode, connectResult, conn,
                    disconnectIssued,
                    msgVars, dpc, resubVars, lastEvent >>

\* The broker answers the SUBSCRIBE of lines 119-122.
broker_suback(granted) ==
    /\ ~exited /\ subAck = "pending"
    /\ subAck' = IF granted THEN "granted" ELSE "rejected"
    /\ UNCHANGED << count, gateVars, mainVars, conn, msgVars, dpc, resubVars,
                    lastEvent >>

\* Lines 124-127 with received_all_event.clear() before the wait: a set() that
\* came before the main flow started waiting is forgotten.
main_subscribe_result_clears ==
    /\ ~exited /\ mainPc = "subscribe_result" /\ subAck # "pending"
    /\ IF subAck = "granted"
       THEN /\ mainPc' = "wait"
            /\ received_all_event' = FALSE
            /\ UNCHANGED << exited, exitCode >>
       ELSE /\ mainPc' = "failed"
            /\ exited' = TRUE
            /\ exitCode' = 1
            /\ UNCHANGED received_all_event
    /\ UNCHANGED << count, received_count, setCalls, connectResult, conn,
                    subscribeIssued, subAck, disconnectIssued, msgVars, dpc,
                    resubVars, lastEvent >>

\* Lines 124-125: subscribe_future.result() returns, or raises on rejection.
main_subscribe_result ==
    /\ ~exited /\ mainPc = "subscribe_result" /\ subAck # "pending"
    /\ IF subAck = "granted"
       THEN /\ mainPc' = "wait"
            /\ UNCHANGED << exited, exitCode >>
       ELSE /\ mainPc' = "failed"
            /\ exited' = TRUE
            /\ exitCode' = 1
    /\ UNCHANGED << count, gateVars, connectResult, conn, subscribeIssued,
                    subAck, disconnectIssued, msgVars, dpc, resubVars, lastEvent >>

\* Lines 127-128 followed by received_all_event.clear().
main_wait_clears ==
    /\ ~exited /\ mainPc = "wait"
    /\ received_all_event
    /\ mainPc' = "disconnect"
    /\ received_all_event' = FALSE
    /\ UNCHANGED << count, received_count, setCalls, exited, exitCode,
                    connectResult, conn, subscribeIssued, subAck,
                    disconnectIssued, msgVars, dpc, resubVars, lastEvent >>

\* Line 127 with a timeout: wait() also returns while the event is unset.
main_wait_timeout ==
    /\ ~exited /\ mainPc = "wait"
    /\ mainPc' = "disconnect"
    /\ UNCHANGED << count, gateVars, exited, exitCode, connectResult, conn,
                    subscribeIssued, subAck, disconnectIssued, msgVars, dpc,
                    resubVars, lastEvent >>

\* Lines 127-128: received_all_event.wait() returns once the event is set.
main_wait ==
    /\ ~exited /\ mainPc = "wait"
    /\ received_all_event
    /\ mainPc' = "disconnect"
    /\ UNCHANGED << count, gateVars, exited, exitCode, connectResult, conn,
                    subscribeIssued,
                    subAck, disconnectIssued, msgVars, dpc, resubVars,
                    lastEvent >>

\* Lines 131-132: mqtt_connection.disconnect().
main_disconnect ==
    /\ ~exited /\ mainPc = "disconnect"
    /\ mainPc' = "disconnect_result"
    /\ disconnectIssued' = TRUE
    /\ UNCHANGED << count, gateVars, exited, exitCode, connectResult, conn,
                    subscribeIssued,
                    subAck, msgVars, dpc, resubVars, lastEvent >>

\* Lines 133-134: disconnect_future.result() returns; the script ends.
main_disconnect_result ==
    /\ ~exited /\ mainPc = "disconnect_result"
    /\ mainPc' = "done"
    /\ conn' = "Disconnected"
    /\ exited' = TRUE
    /\ exitCode' = 0
    /\ UNCHANGED << count, gateVars, connectResult, subscribeIssued, subAck,
                    disconnectIssued,
                    msgVars, dpc, resubVars, lastEvent >>

\* ---------------------------------------------------- the delivery thread
\* The broker publishes a message on the subscribed topic.
broker_publish ==
    /\ ~exited /\ subAck = "granted"
    /\ nextMsg <= MaxMsgs
    /\ msgq' = Append(msgq, nextMsg)
    /\ nextMsg' = nextMsg + 1
    /\ UNCHANGED << count, gateVars, mainVars, conn, subAck, dpc, cur, procLog,
                    resubVars, lastEvent >>

\* Lines 53-54: log the error, nothing else.
on_connection_interrupted ==
    /\ ~exited /\ dpc = "idle"
    /\ conn \in {"Connected", "Resuming"}
    /\ conn' = ConnAfterInterrupted
    /\ lastEvent' = Event("interrupted", ACCEPTED, FALSE)
    /\ UNCHANGED << count, gateVars, mainVars, subAck, msgVars, dpc, resubVars >>

\* Lines 63-67: call resubscribe_existing_topics and attach
\* on_resubscribe_complete to the future it returned.  On a pending future
\* add_done_callback stores the callback.  On a future that is already
\* completed it calls on_resubscribe_complete at once, inside
\* on_connection_resumed: lines 70-76 run in this step, a SystemExit of line 76
\* leaves on_connection_resumed, an exception of line 71 is logged by
\* add_done_callback.
on_connection_resumed_resubscribe(future, return_code, session_present) ==
    /\ resubRequests < MaxResub
    /\ (future.state = "result" /\ future.topics # << >>) => subscribeIssued
    /\ resubRequests' = resubRequests + 1
    /\ IF future.state = "pending"
       THEN /\ pending' = pending + 1
            /\ conn' = ConnAfterResumed(return_code, session_present)
            /\ lastEvent' = Event("resumed", return_code, session_present)
            /\ UNCHANGED << sysExitArg, absentGrants >>
       ELSE IF future.state = "result"
       THEN /\ pending' = pending
            /\ absentGrants' =
                   { i \in DOMAIN future.topics : future.topics[i] = None }
            /\ sysExitArg' = IF FirstRejected(future.topics, 1) = << >>
                             THEN sysExitArg
                             ELSE FirstRejected(future.topics, 1)
            /\ conn' = ConnAfterResubscribe(
                           ConnAfterResumed(return_code, session_present),
                           FirstRejected(future.topics, 1) = << >>)
            /\ lastEvent' = Event("resubscribe_complete",
                                  IF FirstRejected(future.topics, 1) = << >>
                                  THEN "granted" ELSE "rejected", FALSE)
       ELSE /\ pending' = pending
            /\ absentGrants' = {}
            /\ sysExitArg' = sysExitArg
            /\ conn' = ConnAfterResumed(return_code, session_present)
            /\ lastEvent' = Event("resubscribe_complete", "failed", FALSE)

\* Lines 61-67 skipping the request while an earlier resubscribe is pending.
on_connection_resumed_dedup(return_code, session_present) ==
    /\ ~exited /\ dpc = "idle"
    /\ conn = "Interrupted"
    /\ IF ShouldResubscribe(return_code, session_present) /\ pending = 0
       THEN \E future \in ResubFutures :
                on_connection_resumed_resubscribe(future, return_code,
                                                  session_present)
       ELSE /\ conn' = ConnAfterResumed(return_code, session_present)
            /\ lastEvent' = Event("resumed", return_code, session_present)
            /\ UNCHANGED resubVars
    /\ UNCHANGED << count, gateVars, mainVars, subAck, msgVars, dpc >>

\* Lines 62-63 also starting the count afresh for the restored subscriptions.
on_connection_resumed_resets(return_code, session_present) ==
    /\ ~exited /\ dpc = "idle"
    /\ conn = "Interrupted"
    /\ IF ShouldResubscribe(return_code, session_present)
       THEN /\ \E future \in ResubFutures :
                   on_connection_resumed_resubscribe(future, return_code,
                                                     session_present)
            /\ received_count' = 0
       ELSE /\ conn' = ConnAfterResumed(return_code, session_present)
            /\ lastEvent' = Event("resumed", return_code, session_present)
            /\ UNCHANGED << resubVars, received_count >>
    /\ UNCHANGED << count, received_all_event, setCalls, mainVars, subAck, msgVars,
                    dpc >>

\* Lines 63-67 with resubscribe_future.result() in place of add_done_callback:
\* the callback waits on the event-loop thread for a result that only this
\* thread can deliver.
on_connection_resumed_awaits(return_code, session_present) ==
    /\ ~exited /\ dpc = "idle"
    /\ conn = "Interrupted"
    /\ IF ShouldResubscribe(return_code, session_present)
       THEN /\ resubRequests < MaxResub
            /\ resubRequests' = resubRequests + 1
            /\ dpc' = "await_resubscribe"
       ELSE UNCHANGED << resubRequests, dpc >>
    /\ conn' = ConnAfterResumed(return_code, session_present)
    /\ lastEvent' = Event("resumed", return_code, session_present)
    /\ UNCHANGED << count, gateVars, mainVars, subAck, msgVars, pending,
                    sysExitArg, absentGrants >>

\* Lines 58-67: on an accepted resume without session, call
\* resubscribe_existing_topics once and attach on_resubscribe_complete to the
\* future, whatever state the future is in; otherwise only log.
on_connection_resumed(return_code, session_present) ==
    /\ ~exited /\ dpc = "idle"
    /\ conn = "Interrupted"
    /\ IF ShouldResubscribe(return_code, session_present)
       THEN \E future \in ResubFutures :
                on_connection_resumed_resubscribe(future, return_code,
                                                  session_present)
       ELSE /\ conn' = ConnAfterResumed(return_code, session_present)
            /\ lastEvent' = Event("resumed", return_code, session_present)
            /\ UNCHANGED resubVars
    /\ UNCHANGED << count, gateVars, mainVars, subAck, msgVars, dpc >>

\* Lines 70-76 called when a pending future completes with a result (the
\* connection completes it on this thread): the first topic without a
\* grant is passed to sys.exit, which raises SystemExit on this thread.  The
\* result lists topics only once subscribe (lines 119-122) registered one.
on_resubscribe_complete(topics) ==
    /\ ~exited /\ dpc = "idle"
    /\ pending > 0
    /\ topics # << >> => subscribeIssued
    /\ pending' = pending - 1
    /\ absentGrants' = { i \in DOMAIN topics : topics[i] = None }
    /\ sysExitArg' = IF FirstRejected(topics, 1) = << >>
                     THEN sysExitArg ELSE FirstRejected(topics, 1)
    /\ conn' = ConnAfterResubscribe(conn, FirstRejected(topics, 1) = << >>)
    /\ lastEvent' = Event("resubscribe_complete",
                          IF FirstRejected(topics, 1) = << >>
                          THEN "granted" ELSE "rejected", FALSE)
    /\ UNCHANGED << count, gateVars, mainVars, subAck, msgVars, dpc,
                    resubRequests >>

\* Line 71 called when a pending future completes with an exception: result()
\* raises it and the callback ends there.
on_resubscribe_failed ==
    /\ ~exited /\ dpc = "idle"
    /\ pending > 0
    /\ pending' = pending - 1
    /\ absentGrants' = {}
    /\ lastEvent' = Event("resubscribe_complete", "failed", FALSE)
    /\ UNCHANGED << count, gateVars, mainVars, conn, subAck, msgVars, dpc,
                    resubRequests, sysExitArg >>

\* Line 83 handing the call to a worker instead of making it: the callback
\* returns while exec_switchbot is still running on the message.
on_message_received_async ==
    /\ ~exited /\ dpc = "idle"
    /\ msgq # << >>
    /\ cur' = Append(cur, Head(msgq))
    /\ msgq' = Tail(msgq)
    /\ procLog' = Append(procLog, << "call", Head(msgq) >>)
    /\ lastEvent' = Event("message", ACCEPTED, FALSE)
    /\ UNCHANGED << count, gateVars, mainVars, conn, subAck, nextMsg, dpc,
                    resubVars >>

\* Lines 80-83: the transport hands over the oldest surfaced message and the
\* callback calls service.exec_switchbot on it.
on_message_received ==
    /\ ~exited /\ dpc = "idle"
    /\ msgq # << >>
    /\ cur' = << Head(msgq) >>
    /\ msgq' = Tail(msgq)
    /\ procLog' = Append(procLog, << "call", Head(msgq) >>)
    /\ dpc' = "exec"
    /\ lastEvent' = Event("message", ACCEPTED, FALSE)
    /\ UNCHANGED << count, gateVars, mainVars, conn, subAck, nextMsg, resubVars >>

\* Lines 85-88: exec_switchbot returned; count the message and set the event
\* when the counter equals args.count.
exec_switchbot_returns ==
    /\ ~exited /\ dpc = "exec"
    /\ procLog' = Append(procLog, << "return", cur[1] >>)
    /\ received_count' = received_count + 1
    /\ IF TargetReached(received_count + 1)
       THEN /\ received_all_event' = TRUE
            /\ setCalls' = setCalls + 1
       ELSE UNCHANGED << received_all_event, setCalls >>
    /\ cur' = << >>
    /\ dpc' = "idle"
    /\ UNCHANGED << count, mainVars, conn, subAck, nextMsg, msgq, resubVars,
                    lastEvent >>

\* Lines 85-86 moved in front of line 83: the message is counted before
\* exec_switchbot runs, so a failing message is counted too.
exec_switchbot_raises_counted ==
    /\ ~exited /\ dpc = "exec"
    /\ procLog' = Append(procLog, << "raise", cur[1] >>)
    /\ received_count' = received_count + 1
    /\ cur' = << >>
    /\ dpc' = "idle"
    /\ UNCHANGED << count, received_all_event, setCalls, mainVars, conn, subAck,
                    nextMsg, msgq, resubVars, lastEvent >>

\* Line 83 raises (decode or exec_switchbot): the callback ends before line 85.
exec_switchbot_raises ==
    /\ ~exited /\ dpc = "exec"
    /\ procLog' = Append(procLog, << "raise", cur[1] >>)
    /\ cur' = << >>
    /\ dpc' = "idle"
    /\ UNCHANGED << count, gateVars, mainVars, conn, subAck, nextMsg, msgq,
                    resubVars, lastEvent >>

\* --------------------------------------------------------- specification
MainNext ==
    \/ main_connect
    \/ \E accepted \in BOOLEAN : main_connect_result(accepted)
    \/ main_subscribe
    \/ main_subscribe_result
    \/ main_wait
    \/ main_disconnect
    \/ main_disconnect_result

DeliveryNext ==
    \/ on_connection_interrupted
    \/ \E rc \in ReturnCodes, sp \in BOOLEAN : on_connection_resumed(rc, sp)
    \/ \E topics \in ResubResults : on_resubscribe_complete(topics)
    \/ on_resubscribe_failed
    \/ on_message_received
    \/ exec_switchbot_returns
    \/ exec_switchbot_raises

BrokerNext ==
    \/ \E granted \in BOOLEAN : broker_suback(granted)
    \/ broker_publish

Next == MainNext \/ DeliveryNext \/ BrokerNext

Spec == Init /\ [][Next]_vars

\* The main thread and the delivery thread are both scheduled: a step of the
\* main flow that can be taken is eventually taken, a surfaced message is
\* eventually dispatched and a running exec_switchbot call eventually ends.
\* Nothing obliges the broker to publish or the connection to break.
DeliveryProgress ==
    on_message_received \/ exec_switchbot_returns \/ exec_switchbot_raises

FairSpec == Spec /\ WF_vars(MainNext) /\ WF_vars(DeliveryProgress)

TypeOK ==
    /\ count \in Counts
    /\ received_count \in 0 .. MaxMsgs
    /\ received_all_event \in BOOLEAN
    /\ setCalls \in 0 .. MaxMsgs
    /\ mainPc \in {"connect", "connect_result", "subscribe", "subscribe_result",
                   "wait", "disconnect", "disconnect_result", "done", "failed"}
    /\ exited \in BOOLEAN
    /\ exitCode \in {0, 1}
    /\ connectResult \in {"none", "accepted", "rejected"}
    /\ conn \in {"Disconnected", "Connecting", "Connected", "Interrupted", "Resuming"}
    /\ subAck \in {"none", "pending", "granted", "rejected"}
    /\ dpc \in {"idle", "exec"}
    /\ Len(cur) <= 1
    /\ pending \in 0 .. MaxResub
    /\ resubRequests \in 0 .. MaxResub
    /\ Len(sysExitArg) <= 1
    /\ absentGrants \subseteq 1 .. MaxTopics

\* ------------------------------------------------------------ properties
\* Number of exec_switchbot calls that returned: the successful deliveries.
NumReturned ==
    Cardinality({ i \in DOMAIN procLog : procLog[i][1] = "return" })

\* Number of exec_switchbot calls that raised.
NumRaised ==
    Cardinality({ i \in DOMAIN procLog : procLog[i][1] = "raise" })

\* C1: for a non-zero target count N the event is unset while fewer than N
\* deliveries have succeeded, is set as soon as N have (N >= 1, the N-th
\* delivery exists), and set() has been called exactly once from then on,
\* also after deliveries N+1, N+2, ...
C1_GateSetOnceAtTarget ==
    count # 0 =>
        /\ setCalls <= 1
        /\ received_all_event <=> (setCalls = 1)
        /\ received_all_event => (count > 0 /\ NumReturned >= count)
        /\ (count > 0 /\ NumReturned >= count) => received_all_event

\* C1 witness: target 1, a second delivery has succeeded, set() was called
\* once.
C1_Witness ==
    /\ count = 1
    /\ NumReturned = 2
    /\ received_all_event
    /\ setCalls = 1

\* C2: with target count 0 the event is never set and set() never called,
\* however many messages are delivered and whatever lifecycle events are
\* interleaved; the main flow never gets past its wait and never disconnects.
C2_UnboundedModeNeverSignals ==
    count = 0 =>
        /\ ~received_all_event
        /\ setCalls = 0
        /\ mainPc \notin {"disconnect", "disconnect_result", "done"}
        /\ ~disconnectIssued
        /\ (exited => exitCode # 0)

\* C2 witness: target 0, several deliveries and a completed resubscribe, the
\* main flow still waiting.
C2_Witness ==
    /\ count = 0
    /\ NumReturned >= 2
    /\ resubRequests >= 1
    /\ pending = 0
    /\ mainPc = "wait"
    /\ ~received_all_event

\* C3 (as claimed): once on_resubscribe_complete has met a topic whose grant is
\* None, the process ends with a non-zero status and exec_switchbot never runs
\* again.  sysExitArg is written by line 76 alone, and no exec_switchbot call
\* is in progress when the callback runs, so a call in progress afterwards is
\* a later dispatch.
C3_RejectedGrantEndsTheRun ==
    sysExitArg # << >> =>
        /\ dpc # "exec"
        /\ (exited => exitCode # 0)

\* C4 (as claimed): a resumed event with ACCEPTED and session_present = FALSE
\* makes exactly one resubscribe request and returns with its result unread:
\* the future is left pending and the result is read only by a later, separate
\* step of on_resubscribe_complete.
C4_ResubscribeResultReadLater ==
    [][on_connection_resumed(ACCEPTED, FALSE) =>
          /\ resubRequests' = resubRequests + 1
          /\ pending' = pending + 1
          /\ lastEvent' = Event("resumed", ACCEPTED, FALSE)
          /\ UNCHANGED << sysExitArg, absentGrants >>]_vars

\* C4 (amended): a resumed event with ACCEPTED and session_present = FALSE
\* makes exactly one resubscribe request and never waits for its result: the
\* delivery thread is idle again after the step and is never waiting for a
\* resubscribe result.  The result is read by on_resubscribe_complete, in a
\* later step when the future was still pending (nothing is read in this
\* step), inside this step when the future was already completed (no future
\* is left pending by it).
C4_ResubscribeIssuedOnceNotAwaited ==
    /\ [](dpc \in {"idle", "exec"})
    /\ [][on_connection_resumed(ACCEPTED, FALSE) =>
            /\ resubRequests' = resubRequests + 1
            /\ dpc' = "idle"
            /\ ~exited'
            /\ \/ /\ pending' = pending + 1
                  /\ lastEvent' = Event("resumed", ACCEPTED, FALSE)
                  /\ UNCHANGED << sysExitArg, absentGrants >>
               \/ /\ pending' = pending
                  /\ lastEvent'.kind = "resubscribe_complete"]_vars

\* C4 witness: the last callback was such a resume; its request is pending and
\* the delivery thread is idle.
C4_Witness ==
    /\ lastEvent = Event("resumed", ACCEPTED, FALSE)
    /\ resubRequests = 1
    /\ pending = 1
    /\ dpc = "idle"
    /\ conn = "Resuming"

\* C5 (as claimed): every resumed event with session_present = TRUE, whatever
\* its return code, issues no resubscribe request, leaves subscription, counter
\* and event unchanged and takes the observed connection back to Connected.
C5_SessionPresentResumeReconnects ==
    [][\A rc \in ReturnCodes :
         on_connection_resumed(rc, TRUE) =>
            /\ UNCHANGED << resubRequests, pending, gateVars, subAck,
                            subscribeIssued >>
            /\ conn' = "Connected"]_vars

\* C5 (amended): every resumed event with session_present = TRUE, whatever its
\* return code, issues no resubscribe request and leaves subscription, counter
\* and event unchanged; the observed connection goes back to Connected when
\* the return code is ACCEPTED and stays Interrupted otherwise.
C5_SessionPresentResumeNoResubscribe ==
    [][\A rc \in ReturnCodes :
         on_connection_resumed(rc, TRUE) =>
            /\ UNCHANGED << resubRequests, pending, gateVars, subAck,
                            subscribeIssued >>
            /\ conn' = IF rc = ACCEPTED THEN "Connected" ELSE "Interrupted"]_vars

\* C5 witness: the last callback was an accepted resume with the session
\* present, after messages were counted; nothing was ever resubscribed.
C5_Witness ==
    /\ lastEvent = Event("resumed", ACCEPTED, TRUE)
    /\ conn = "Connected"
    /\ resubRequests = 0
    /\ received_count >= 1

\* C6: exec_switchbot is called on the messages in the order they were
\* delivered (message k is the k-th published on the topic), and each call has
\* returned or raised before the next one is made: the log is call 1, end 1,
\* call 2, end 2, ...
C6_ProcessedInDeliveryOrder ==
    \A i \in DOMAIN procLog :
        IF i % 2 = 1
        THEN procLog[i] = << "call", (i + 1) \div 2 >>
        ELSE /\ procLog[i][1] \in {"return", "raise"}
             /\ procLog[i][2] = i \div 2

\* C6 witness: both published messages were processed, the second last.
C6_Witness ==
    /\ Len(procLog) = 4
    /\ procLog[4][2] = 2
    /\ lastEvent.kind = "message"
    /\ nextMsg = 3

\* C7: a rejected connect ends the main flow with a non-zero exit status
\* before subscribe, wait or disconnect; subscribe is only ever issued after
\* connect_future.result() returned.
C7_ConnectRejectedExitsBeforeSubscribe ==
    /\ connectResult = "rejected" =>
          /\ exited /\ exitCode # 0
          /\ mainPc = "failed"
          /\ ~subscribeIssued /\ subAck = "none"
          /\ ~disconnectIssued
    /\ subscribeIssued => connectResult = "accepted"

\* C7 witness: connect was rejected and the process has ended with status 1.
C7_Witness ==
    /\ connectResult = "rejected"
    /\ exited
    /\ exitCode = 1
    /\ ~subscribeIssued

\* The conditions the design calls fatal: connect or subscribe rejected, a
\* resubscribe grant refused, an exec_switchbot failure.
FatalCondition ==
    \/ connectResult = "rejected"
    \/ subAck = "rejected"
    \/ sysExitArg # << >>
    \/ NumRaised > 0

\* C8: with a target count N >= 1, once N deliveries have succeeded and as
\* long as no fatal condition occurs, the main flow eventually passes its
\* wait, calls disconnect and the process ends with exit status 0 (main thread
\* and delivery thread fairly scheduled).
C8_TargetReachedLeadsToCleanExit ==
    (count > 0 /\ NumReturned >= count /\ ~FatalCondition)
        ~> (\/ /\ exited /\ exitCode = 0
               /\ mainPc = "done" /\ disconnectIssued
            \/ FatalCondition)

\* C8 witness: target 2, two deliveries succeeded, nothing fatal happened,
\* the process has disconnected and ended with status 0.
C8_Witness ==
    /\ count = 2
    /\ NumReturned = 2
    /\ ~FatalCondition
    /\ disconnectIssued
    /\ exited /\ exitCode = 0

\* A step in which on_resubscribe_complete ran: it took a future out of the
\* pending ones, or it was called inside on_connection_resumed on the future
\* of the request just made.
ResubscribeCompleteStep ==
    \/ pending' = pending - 1
    \/ /\ resubRequests' = resubRequests + 1
       /\ pending' = pending

\* C9: on_connection_interrupted, on_connection_resumed and
\* on_resubscribe_complete leave the counter, the event and the number of
\* set() calls unchanged; an interruption, a resume and a resubscribe whose
\* grants are all defined do not end the process; the counter is never reset:
\* it always equals the number of deliveries that succeeded so far, so the
\* next delivery counts on from the value before the interruption.
C9_RecoveryKeepsCounterAndGate ==
    /\ [](received_count = NumReturned)
    /\ [][(\/ on_connection_interrupted
           \/ \E rc \in ReturnCodes, sp \in BOOLEAN : on_connection_resumed(rc, sp)
           \/ ResubscribeCompleteStep)
          => UNCHANGED gateVars]_vars
    /\ [][(\/ on_connection_interrupted
           \/ \E rc \in ReturnCodes, sp \in BOOLEAN : on_connection_resumed(rc, sp)
           \/ /\ ResubscribeCompleteStep
              /\ lastEvent' = Event("resubscribe_complete", "granted", FALSE))
          => (~exited' /\ UNCHANGED << mainPc, exitCode >>)]_vars

\* C9 witness: after a resume without session and a resubscribe with all
\* grants defined, the connection is Connected again and the delivery thread
\* has just counted the second message: the counter went on from 1 to 2.
C9_Witness ==
    /\ lastEvent.kind = "message"
    /\ dpc = "idle"
    /\ procLog = << << "call", 1 >>, << "return", 1 >>,
                    << "call", 2 >>, << "return", 2 >> >>
    /\ received_count = 2
    /\ resubRequests = 1
    /\ pending = 0
    /\ sysExitArg = << >>
    /\ conn = "Connected"
    /\ ~exited

\* C10 (as claimed): a failure of exec_switchbot on one message ends the run:
\* no message is handed to exec_switchbot after it, and the process ends with
\* a non-zero exit status.
C10_ProcessorFailureEndsTheRun ==
    \A i \in DOMAIN procLog :
        procLog[i][1] = "raise" =>
            /\ i = Len(procLog)
            /\ (exited => exitCode # 0)

\* C11: the main flow calls disconnect only with the event set: whenever it is
\* past its wait, the event is set, the target count is at least 1 and at
\* least that many messages were counted.
C11_DisconnectOnlyAfterGate ==
    (disconnectIssued \/ mainPc \in {"disconnect", "disconnect_result", "done"})
        => /\ received_all_event
           /\ count # 0 => received_count >= count

\* C11 witness: disconnect was requested, with target 1 and a second message
\* counted before the process ended.
C11_Witness ==
    /\ disconnectIssued
    /\ ~exited
    /\ count = 1
    /\ received_count = 2
    /\ received_all_event

\* C12: a resumed event with a return code other than ACCEPTED, with either
\* value of session_present, issues no resubscribe request, does not end the
\* process and leaves the observed connection Interrupted and the counter, the
\* event and sys.exit untouched.
C12_RejectedResumeChangesNothing ==
    [][\A rc \in ReturnCodes \ {ACCEPTED}, sp \in BOOLEAN :
         on_connection_resumed(rc, sp) =>
            /\ UNCHANGED << resubRequests, pending, sysExitArg, gateVars,
                            mainVars >>
            /\ conn = "Interrupted" /\ conn' = "Interrupted"
            /\ ~exited']_vars

\* C12 witness: the last callback was a rejected resume without session, after
\* a message was counted; the connection is still Interrupted, nothing was
\* resubscribed and the process runs.
C12_Witness ==
    /\ lastEvent = Event("resumed", "SERVER_UNAVAILABLE", FALSE)
    /\ conn = "Interrupted"
    /\ resubRequests = 0
    /\ received_count >= 1
    /\ ~exited

\* C13: no interrupted and no resumed event, whatever its return code and
\* session flag, ends the process or moves the main flow; on the recovery path
\* sys.exit is called by on_resubscribe_complete alone, and only on a result
\* that holds a topic whose grant is None; the process itself ends only by a
\* step of the main flow.
C13_LifecycleEventsNeverTerminate ==
    /\ [][(\/ on_connection_interrupted
           \/ \E rc \in ReturnCodes, sp \in BOOLEAN : on_connection_resumed(rc, sp))
          => (~exited' /\ UNCHANGED mainVars)]_vars
    /\ [][sysExitArg' # sysExitArg
          => (ResubscribeCompleteStep /\ absentGrants' # {})]_vars
    /\ [][(exited' # exited) => (mainPc' # mainPc)]_vars

\* C13 witness: on_resubscribe_complete called sys.exit for a refused topic
\* after an interruption and a resume; the process is still running.
C13_Witness ==
    /\ lastEvent = Event("resubscribe_complete", "rejected", FALSE)
    /\ sysExitArg # << >>
    /\ absentGrants # {}
    /\ ~exited

\* The first topic, in result order, of a non-empty set of topics.
FirstOf(topicSet) == CHOOSE i \in topicSet : \A j \in topicSet : i <= j

\* C14 (as claimed): when on_resubscribe_complete reads a result in which some
\* grant is None, it passes to sys.exit the first topic, in result order, whose
\* grant is None; when every grant is defined it changes nothing of the
\* program's state (it only logs) and the connection is Connected again.
C14_AllGrantedReturnsToConnected ==
    [][(ResubscribeCompleteStep /\ lastEvent'.rc # "failed") =>
          IF absentGrants' # {}
          THEN sysExitArg' = << FirstOf(absentGrants') >>
          ELSE /\ UNCHANGED << sysExitArg, gateVars, mainVars, msgVars,
                               subAck, dpc, count >>
               /\ pending' = pending - 1 => resubRequests' = resubRequests
               /\ conn' = "Connected"]_vars

\* C14 (amended): when on_resubscribe_complete reads a result in which some
\* grant is None, it passes to sys.exit the first topic, in result order, whose
\* grant is None; when every grant is defined it changes nothing of the
\* program's state (it only logs); a connection that was Resuming, or that the
\* enclosing on_connection_resumed has just resumed, is Connected again, and a
\* connection in any other state (Interrupted again before the completion
\* arrived, or already Connected) stays as it was.
C14_FirstRejectedTopicReported ==
    [][(ResubscribeCompleteStep /\ lastEvent'.rc # "failed") =>
          IF absentGrants' # {}
          THEN sysExitArg' = << FirstOf(absentGrants') >>
          ELSE /\ UNCHANGED << sysExitArg, gateVars, mainVars, msgVars,
                               subAck, dpc, count >>
               /\ pending' = pending - 1 => resubRequests' = resubRequests
               /\ conn' = IF conn = "Resuming" \/ resubRequests' # resubRequests
                          THEN "Connected" ELSE conn]_vars

\* C14 witness: the latest result had two topics without a grant and the
\* first of them was passed to sys.exit.
C14_Witness ==
    /\ lastEvent = Event("resubscribe_complete", "rejected", FALSE)
    /\ absentGrants = {1, 2}
    /\ sysExitArg = << 1 >>

\* C15: no wake-up is lost between the delivery thread and the main thread.
\* Messages are counted wherever the main flow stands (the counter always
\* equals the number of successful deliveries); with the event set the wait
\* at line 127 can return, also when set() came before the main flow started
\* waiting; and once the event is set the main flow eventually gets past its
\* wait (main thread fairly scheduled).
C15_NoLostWakeup ==
    /\ [](received_count = NumReturned)
    /\ []((mainPc = "wait" /\ received_all_event /\ ~exited) => ENABLED main_wait)
    /\ received_all_event ~> (mainPc \notin {"subscribe_result", "wait"})

\* C15 witness: the event was set by the delivery thread while the main flow
\* had not yet returned from subscribe_future.result().
C15_Witness ==
    /\ received_all_event
    /\ mainPc = "subscribe_result"
    /\ received_count = count

\* C16: the counter always equals the number of exec_switchbot calls that
\* returned; it changes only by +1 and only in the step of on_message_received
\* that follows the processor's return; a message whose processor call raises
\* leaves the counter, the event and the number of set() calls unchanged.
C16_CounterCountsSuccessfulDeliveries ==
    /\ [](received_count = NumReturned)
    /\ [][received_count' # received_count =>
            (received_count' = received_count + 1 /\ exec_switchbot_returns)]_vars
    /\ [][exec_switchbot_raises => UNCHANGED gateVars]_vars

\* C16 witness: the first message failed and was not counted, the second was
\* processed and counted.
C16_Witness ==
    /\ procLog = << << "call", 1 >>, << "raise", 1 >>,
                    << "call", 2 >>, << "return", 2 >> >>
    /\ received_count = 1

\* C17 (as claimed): for every non-zero target count the event is set exactly
\* when the counter has reached the target.
C17_GateTracksCounter ==
    count # 0 => (received_all_event <=> received_count >= count)

\* C17 (amended): the event is never cleared; for a target count N >= 1 it is
\* set exactly when the counter is at least N, and for N <= 0 (a negative
\* --count is accepted and behaves like 0) it is never set.  The counter may
\* exceed N while the event stays set.
C17_GateTracksCounterForPositiveTarget ==
    /\ [](IF count > 0
          THEN received_all_event <=> received_count >= count
          ELSE ~received_all_event)
    /\ [][received_all_event => received_all_event']_vars

\* C17 witness: target 1, one more message was counted after the event was
\* set while the main flow had not yet returned from wait(); the event is
\* still set.
C17_Witness ==
    /\ count = 1
    /\ received_count = 2
    /\ received_all_event
    /\ mainPc = "wait"
    /\ ~exited

\* C18: resubscribe requests are not de-duplicated.  Every resumed event with
\* ACCEPTED and session_present = FALSE adds one request, also while earlier
\* ones are pending, and nothing else adds one; the futures of the earlier
\* requests stay pending; every completion concerns one future (one that was
\* pending, or the one of the request just made) and is judged on its own
\* result.
C18_ResubscribeNotDeduplicated ==
    /\ [](pending <= resubRequests)
    /\ [][on_connection_resumed(ACCEPTED, FALSE) =>
            /\ resubRequests' = resubRequests + 1
            /\ pending' >= pending]_vars
    /\ [][resubRequests' # resubRequests =>
            on_connection_resumed(ACCEPTED, FALSE)]_vars
    /\ [][ResubscribeCompleteStep =>
            /\ pending' = pending - 1 => resubRequests' = resubRequests
            /\ sysExitArg' = IF absentGrants' # {}
                             THEN << FirstOf(absentGrants') >>
                             ELSE sysExitArg]_vars

\* C18 witness: a second such resume arrived while the first resubscribe was
\* still pending: two requests, two pending futures.
C18_Witness ==
    /\ lastEvent = Event("resumed", ACCEPTED, FALSE)
    /\ resubRequests = 2
    /\ pending = 2

====
